---- MODULE Spec2Model ----
(***************************************************************************)
(* starter/starter/ml/data.py: process_data (one-hot encoding of the       *)
(* categorical features, binarisation of the label column, training and    *)
(* inference branches) and slide_performance (per-slice report file).      *)
(*                                                                         *)
(* Category values and label values are the ranks of the source's strings  *)
(* in their sort order (np.unique sorts them), so sorting by rank is       *)
(* sorting the strings.                                                    *)
(***************************************************************************)
EXTENDS Integers, Sequences, FiniteSets

\* encoder, lb   the fitted OneHotEncoder and LabelBinarizer the caller
\*               holds (None before a training call has returned)
\* call          the call in progress: its function and its arguments
\* ret           what that call returned or raised
\* report        the lines of log_slice_performance.txt
\* train_width  the width of the matrix the last training call returned
VARIABLES encoder, lb, call, ret, report, train_width

vars == <<encoder, lb, call, ret, report, train_width>>

\* ------------------------------------------------------------------ bounds
\* Largest number of rows of a table passed to a training call.
MaxTrainRows == 3
\* Largest number of rows of a table passed to an inference call.
MaxTestRows == 3
\* Largest number of rows of the table passed to slide_performance.
MaxSliceRows == 3

\* ------------------------------------------------------------ python values
None == [type |-> "NoneType"]

\* The label argument left at its default.
label_None == "None"

\* ------------------------------------------------------------- the tables
\* Column order of a labelled DataFrame, and of one without its label column.
Columns == <<"age", "workclass", "sex", "salary">>
FeatureColumns == <<"age", "workclass", "sex">>

\* The categorical feature names (the module-level list, cut to the
\* categorical columns the tables of the model have).
categorical_features == <<"workclass", "sex">>

\* The census rows the tables are drawn from.
Records ==
    { [age |-> 25, workclass |-> 1, sex |-> 2, salary |-> 1],
      [age |-> 40, workclass |-> 2, sex |-> 1, salary |-> 2],
      [age |-> 33, workclass |-> 3, sex |-> 2, salary |-> 3],
      [age |-> 40, workclass |-> 1, sex |-> 1, salary |-> 2] }

Tables(maxRows) == UNION { [1..n -> Records] : n \in 1..maxRows }

\* The trained classifier handed to slide_performance: the class it predicts
\* for every row.
Models == {1}

\* --------------------------------------------------------- sequence helpers
SeqToSet(s) == { s[i] : i \in 1..Len(s) }

RECURSIVE Sum(_, _)
\* f[1] + ... + f[n]
Sum(f, n) == IF n = 0 THEN 0 ELSE f[n] + Sum(f, n - 1)

RECURSIVE Concat(_, _)
\* ss[1] \o ... \o ss[n]
Concat(ss, n) == IF n = 0 THEN << >> ELSE Concat(ss, n - 1) \o ss[n]

RECURSIVE np_unique(_)
\* np.unique: the distinct values of a set, ascending.
np_unique(S) ==
    IF S = {} THEN << >>
    ELSE LET m == CHOOSE x \in S : \A z \in S : x <= z
         IN  <<m>> \o np_unique(S \ {m})

RECURSIVE pd_unique(_)
\* Series.unique(): the distinct values in order of first appearance.
pd_unique(s) ==
    IF Len(s) = 0 THEN << >>
    ELSE LET Add(front, x) ==
                 IF x \in SeqToSet(front) THEN front ELSE Append(front, x)
         IN  Add(pd_unique(SubSeq(s, 1, Len(s) - 1)), s[Len(s)])

\* A DataFrame: its column names in order and its rows in order, each row
\* holding a value per column.
DataFrame(rows, columns) ==
    [columns |-> columns,
     rows    |-> [i \in 1..Len(rows) |->
                     [c \in SeqToSet(columns) |-> rows[i][c]]]]

\* The tables of at most maxRows rows, each with the label argument that may
\* go with it: the label column's name for a labelled table, None for any.
CallInputs(maxRows) ==
    { [X |-> DataFrame(rows, Columns), label |-> label] :
         rows \in Tables(maxRows), label \in {"salary", label_None} }
    \cup
    { [X |-> DataFrame(rows, FeatureColumns), label |-> label_None] :
         rows \in Tables(maxRows) }

\* X[name]: one column of a DataFrame, as the sequence of its values.
Column(X, name) == [i \in 1..Len(X.rows) |-> X.rows[i][name]]

\* X.drop(names, axis=1): the DataFrame without the named columns.
Drop(X, names) ==
    DataFrame(X.rows, SelectSeq(X.columns, LAMBDA c : c \notin SeqToSet(names)))

\* X[names].values: the rows cut to the named columns, in the names' order.
Values(X, names) ==
    [i \in 1..Len(X.rows) |-> [j \in 1..Len(names) |-> X.rows[i][names[j]]]]

\* ---------------------------------------------------------- OneHotEncoder
\* OneHotEncoder(handle_unknown="ignore").fit: per column, the sorted
\* distinct values.
OneHotEncoder_fit(Xc) ==
    [type        |-> "OneHotEncoder",
     categories_ |-> [j \in 1..Len(Xc[1]) |->
                         np_unique({ Xc[i][j] : i \in 1..Len(Xc) })]]

\* Indicator with an unknown value counted as the first category.
Indicator_UnknownFirst(cats, v) ==
    [p \in 1..Len(cats) |->
        IF cats[p] = v \/ (v \notin SeqToSet(cats) /\ p = 1) THEN 1 ELSE 0]

\* The indicator block of one value under one column's categories: a 1 at
\* the value's position, all 0 for a value that was not fitted.
Indicator(cats, v) == [p \in 1..Len(cats) |-> IF cats[p] = v THEN 1 ELSE 0]

\* A transform that encodes against the values of the table it is given
\* instead of the fitted categories.
OneHotEncoder_transform_Observed(enc, Xc) ==
    [i \in 1..Len(Xc) |->
        Concat([j \in 1..Len(enc.categories_) |->
                   Indicator(np_unique({ Xc[m][j] : m \in 1..Len(Xc) }),
                             Xc[i][j])],
               Len(enc.categories_))]

\* encoder.transform: per row, the columns' indicator blocks side by side.
OneHotEncoder_transform(enc, Xc) ==
    [i \in 1..Len(Xc) |->
        Concat([j \in 1..Len(enc.categories_) |->
                   Indicator(enc.categories_[j], Xc[i][j])],
               Len(enc.categories_))]

\* ---------------------------------------------------------- LabelBinarizer
\* type_of_target of a label vector: binary up to two distinct values.
type_of_target(y) ==
    IF Cardinality(SeqToSet(y)) <= 2 THEN "binary" ELSE "multiclass"

LabelBinarizer_fit(y) ==
    [type |-> "LabelBinarizer", classes_ |-> np_unique(SeqToSet(y))]

\* label_binarize(y, classes=lb.classes_): an n x 1 column when the vector
\* and the classes are binary, an n x len(classes_) indicator matrix
\* otherwise; a label that was not fitted gives zeros.
LabelBinarizer_transform(lbz, y) ==
    LET classes == lbz.classes_
        n       == Len(classes)
        y_type  == IF type_of_target(y) = "binary" /\ n >= 3
                   THEN "multiclass" ELSE type_of_target(y)
    IN  IF y_type = "binary" /\ n = 1
        THEN [i \in 1..Len(y) |-> <<0>>]
        ELSE IF y_type = "binary"
        THEN [i \in 1..Len(y) |-> <<Indicator(classes, y[i])[n]>>]
        ELSE [i \in 1..Len(y) |-> Indicator(classes, y[i])]

\* ndarray.ravel(): the rows of a matrix one after the other.
ravel(M) == Concat(M, Len(M))

\* A concatenation that leaves the continuous columns out.
np_concatenate_CategoricalOnly(Xcont, Xcat) == Xcat

\* np.concatenate([X_continuous, X_categorical], axis=1)
np_concatenate(Xcont, Xcat) == [i \in 1..Len(Xcont) |-> Xcont[i] \o Xcat[i]]

\* ------------------------------------------------------------ process_data
ndarray(values) == [kind |-> "ndarray", values |-> values]
Series(values) == [kind |-> "Series", values |-> values]

Raised(exc) == [status |-> "raised", exc |-> exc]

\* Lines 60-64: the label column split from the table, or an empty array.
SplitLabel(X, label) ==
    IF label # label_None
    THEN [y |-> Series(Column(X, label)), X |-> Drop(X, <<label>>)]
    ELSE [y |-> ndarray(<< >>), X |-> X]

\* y.values, which only a Series has.
HasValues(y) == y.kind = "Series"

\* Lines 69-73: fit a new encoder and a new binarizer, transform with them.
TrainingBranch(X_categorical, y) ==
    LET enc == OneHotEncoder_fit(X_categorical)
    IN  IF ~HasValues(y) THEN Raised("AttributeError")
        ELSE LET lbz == LabelBinarizer_fit(y.values)
             IN  [status        |-> "returned",
                  X_categorical |-> OneHotEncoder_transform(enc, X_categorical),
                  y             |-> ndarray(ravel(
                                       LabelBinarizer_transform(lbz, y.values))),
                  encoder       |-> enc,
                  lb            |-> lbz,
                  lb_transform  |-> TRUE]

\* The label step without the except clause: the AttributeError propagates.
InferenceLabels_Uncaught(y, lbz) ==
    IF lbz = None \/ ~HasValues(y)
    THEN Raised("AttributeError")
    ELSE [status |-> "returned",
          y |-> ndarray(ravel(LabelBinarizer_transform(lbz, y.values))),
          lb_transform |-> TRUE]

\* Lines 76-80: the labels of an inference call. lb.transform and y.values
\* are attribute lookups: each raises AttributeError (lb is None, y is an
\* array), and the except clause catches either, leaving y as it was.
InferenceLabels(y, lbz) ==
    IF lbz = None \/ ~HasValues(y)
    THEN [status |-> "returned", y |-> y, lb_transform |-> FALSE]
    ELSE [status |-> "returned",
          y |-> ndarray(ravel(LabelBinarizer_transform(lbz, y.values))),
          lb_transform |-> TRUE]

\* An inference branch that calls fit_transform on the encoder passed in.
InferenceBranch_Refit(X_categorical, y, enc, lbz) ==
    IF enc = None THEN Raised("AttributeError")
    ELSE LET labels == InferenceLabels(y, lbz)
             refit  == OneHotEncoder_fit(X_categorical)
         IN  [status        |-> "returned",
              X_categorical |-> OneHotEncoder_transform(refit, X_categorical),
              y             |-> labels.y,
              encoder       |-> refit,
              lb            |-> lbz,
              lb_transform  |-> labels.lb_transform]

\* Lines 74-80: transform with the encoder and the binarizer passed in.
InferenceBranch(X_categorical, y, enc, lbz) ==
    IF enc = None THEN Raised("AttributeError")
    ELSE LET labels == InferenceLabels(y, lbz)
         IN  IF labels.status = "raised" THEN labels
             ELSE [status        |-> "returned",
                   X_categorical |-> OneHotEncoder_transform(enc, X_categorical),
                   y             |-> labels.y,
                   encoder       |-> enc,
                   lb            |-> lbz,
                   lb_transform  |-> labels.lb_transform]

\* Lines 60-82.
process_data(X, cat_features, label, training, enc, lbz) ==
    LET split         == SplitLabel(X, label)
        X_categorical == Values(split.X, cat_features)
        X_continuous  == Drop(split.X, cat_features)
        branch        == IF training
                         THEN TrainingBranch(X_categorical, split.y)
                         ELSE InferenceBranch(X_categorical, split.y, enc, lbz)
    IN  IF branch.status = "raised" THEN branch
        ELSE [status       |-> "returned",
              X            |-> np_concatenate(
                                  Values(X_continuous, X_continuous.columns),
                                  branch.X_categorical),
              y            |-> branch.y,
              encoder      |-> branch.encoder,
              lb           |-> branch.lb,
              lb_transform |-> branch.lb_transform]

\* ------------------------------------------------------- slide_performance
\* model.predict(X): one predicted class per row of X.
predict(model, X) == [i \in 1..Len(X) |-> model]

\* compute_model_metrics(y, preds): precision, recall and F-beta of the
\* positive class, each as <<numerator, denominator>>.
compute_model_metrics(y, preds) ==
    LET n   == IF Len(y.values) < Len(preds) THEN Len(y.values) ELSE Len(preds)
        pos == { i \in 1..n : y.kind = "ndarray" /\ y.values[i] = 1 }
        tp  == Cardinality({ i \in pos : preds[i] = 1 })
        fp  == Cardinality({ i \in (1..n) \ pos : preds[i] = 1 })
        fn  == Cardinality({ i \in pos : preds[i] # 1 })
    IN  [precision |-> <<tp, tp + fp>>,
         recall    |-> <<tp, tp + fn>>,
         fbeta     |-> <<2 * tp, 2 * tp + fp + fn>>]

\* The file opened for appending: its content is kept.
open_a(old) == old

\* open('log_slice_performance.txt', 'w'): the file's content once opened.
open_w(old) == << >>

\* The slice values without .unique(): one per row.
SliceValues_PerRow(data, categorical) == Column(data, categorical)

\* data[categorical].unique(), line 112.
SliceValues(data, categorical) == pd_unique(Column(data, categorical))

\* Lines 111-112: the (categorical, value) pairs in the order the two loops
\* visit them.
Slices(data, cat_features) ==
    LET Pairs(categorical, vs) ==
            [k \in 1..Len(vs) |-> [categorical |-> categorical, value |-> vs[k]]]
    IN  Concat([j \in 1..Len(cat_features) |->
                   Pairs(cat_features[j], SliceValues(data, cat_features[j]))],
               Len(cat_features))

\* data[data[categorical] == value], line 113.
Filter(data, categorical, value) ==
    DataFrame(SelectSeq(data.rows, LAMBDA r : r[categorical] = value),
              data.columns)

\* Lines 118-119: the report line of one slice.
Line(slice, metrics) ==
    [value     |-> slice.value,
     cat       |-> slice.categorical,
     precision |-> metrics.precision,
     recall    |-> metrics.recall,
     fbeta     |-> metrics.fbeta]

RECURSIVE SliceLoop(_, _, _, _, _, _, _, _, _)
\* Lines 113-120 for the k-th slice and those after it: f is the file's
\* content, written the lines passed to f.write so far, calls the
\* process_data calls made so far (arguments and result). An error of
\* process_data ends the loop.
SliceLoop(model, data, enc, lbz, cat_features, slices, k, out, calls) ==
    IF k > Len(slices)
    THEN [status |-> "returned", f |-> out.f, written |-> out.written,
          calls |-> calls, encoder |-> enc, lb |-> lbz]
    ELSE LET data_preformance == Filter(data, slices[k].categorical,
                                        slices[k].value)
             r == process_data(data_preformance, cat_features, "salary",
                               FALSE, enc, lbz)
             c == [X |-> data_preformance, encoder |-> enc, lb |-> lbz,
                   ret |-> r]
         IN  IF r.status = "raised"
             THEN [status |-> "raised", exc |-> r.exc, f |-> out.f,
                   written |-> out.written, calls |-> Append(calls, c),
                   encoder |-> enc, lb |-> lbz]
             ELSE LET y_pred == predict(model, r.X)
                      line   == Line(slices[k],
                                     compute_model_metrics(r.y, y_pred))
                  IN  SliceLoop(model, data, r.encoder, r.lb, cat_features,
                                slices, k + 1,
                                [f |-> Append(out.f, line),
                                 written |-> Append(out.written, line)],
                                Append(calls, c))

\* Lines 110-121: the file is opened for writing, the loops run, and the
\* with block closes the file whether or not the loops raised.
slide_performance(model, data, enc, lbz, cat_features, file) ==
    SliceLoop(model, data, enc, lbz, cat_features,
              Slices(data, cat_features), 1,
              [f |-> open_w(file), written |-> << >>], << >>)

\* ---------------------------------------------------------- the state machine
NoCall == [fn |-> "none"]
NoRet == [status |-> "none"]

\* No call of process_data or slide_performance is in progress.
Idle == call = NoCall

\* Nothing is fitted, no call is in progress, no report has been written.
Init ==
    /\ encoder = None
    /\ lb = None
    /\ call = NoCall
    /\ ret = NoRet
    /\ report = << >>
    /\ train_width = 0

\* process_data(X, categorical_features, label, training=True): the caller
\* keeps the fitted encoder and binarizer the call returns, and the width of
\* the matrix it trains the model on.
Train(X, label) ==
    /\ Idle
    /\ \E r \in {process_data(X, categorical_features, label, TRUE,
                              None, None)} :
           /\ call' = [fn |-> "process_data", X |-> X, label |-> label,
                       training |-> TRUE, encoder |-> None, lb |-> None]
           /\ ret' = r
           /\ encoder' = IF r.status = "returned" THEN r.encoder ELSE encoder
           /\ lb' = IF r.status = "returned" THEN r.lb ELSE lb
           /\ train_width' = IF r.status = "returned"
                             THEN Len(r.X[1]) ELSE train_width
    /\ UNCHANGED report

\* process_data(X, categorical_features, label, training=False, encoder, lb).
\* The encoder and binarizer returned are the objects passed in, in the
\* state the call left them in.
Infer(X, label, enc, lbz) ==
    /\ Idle
    /\ \E r \in {process_data(X, categorical_features, label, FALSE,
                              enc, lbz)} :
           /\ call' = [fn |-> "process_data", X |-> X, label |-> label,
                       training |-> FALSE, encoder |-> enc, lb |-> lbz]
           /\ ret' = r
           /\ encoder' = IF r.status = "returned" /\ enc # None
                         THEN r.encoder ELSE encoder
           /\ lb' = IF r.status = "returned" /\ lbz # None
                    THEN r.lb ELSE lb
    /\ UNCHANGED <<report, train_width>>

\* slide_performance(model, data, encoder, lb).
SlidePerformance(model, data, enc, lbz) ==
    /\ Idle
    /\ \E r \in {slide_performance(model, data, enc, lbz,
                                   categorical_features, report)} :
           /\ call' = [fn |-> "slide_performance", model |-> model,
                       data |-> data, encoder |-> enc, lb |-> lbz,
                       overwrites |-> report # << >>]
           /\ ret' = [status |-> r.status, written |-> r.written,
                      calls |-> r.calls]
           /\ report' = r.f
           /\ encoder' = IF enc # None THEN r.encoder ELSE encoder
           /\ lb' = IF lbz # None THEN r.lb ELSE lb
    /\ UNCHANGED train_width

\* The call returns (or its error propagates) to the caller.
Return ==
    /\ call # NoCall
    /\ call' = NoCall
    /\ ret' = NoRet
    /\ UNCHANGED <<encoder, lb, report, train_width>>

\* The calls a training and scoring script makes of process_data.
NextTransform ==
    \/ Idle /\ \E in \in CallInputs(MaxTrainRows) : Train(in.X, in.label)
    \/ Idle /\ \E in \in CallInputs(MaxTestRows),
                  enc \in {encoder, None}, lbz \in {lb, None} :
                  Infer(in.X, in.label, enc, lbz)
    \/ Return

SpecTransform == Init /\ [][NextTransform]_vars

\* One model version: a training call while nothing is fitted yet, scoring
\* calls while no report has been written, slice reports.
NextSlices ==
    \/ Idle /\ encoder = None
            /\ \E in \in CallInputs(MaxTrainRows) : Train(in.X, in.label)
    \/ Idle /\ report = << >>
            /\ \E in \in CallInputs(MaxTestRows),
                  enc \in {encoder, None}, lbz \in {lb, None} :
                  Infer(in.X, in.label, enc, lbz)
    \/ Idle /\ \E model \in Models, rows \in Tables(MaxSliceRows),
                  enc \in {encoder, None} :
                  SlidePerformance(model, DataFrame(rows, Columns), enc, lb)
    \/ Return

SpecSlices == Init /\ [][NextSlices]_vars

\* ------------------------------------------------------------- the claims
IsProcessData == call.fn = "process_data"
IsTraining == IsProcessData /\ call.training
IsInference == IsProcessData /\ ~call.training
IsSlide == call.fn = "slide_performance"
Returned == ret.status = "returned"

\* The values a table holds in its j-th categorical column.
Observed(X, j) ==
    { X.rows[i][categorical_features[j]] : i \in 1..Len(X.rows) }

\* The number of distinct values of each categorical column, added up.
DistinctTotal(X) ==
    Sum([j \in 1..Len(categorical_features) |-> Cardinality(Observed(X, j))],
        Len(categorical_features))

\* The columns of the call's table that are neither its label column nor
\* categorical.
ContinuousColumns ==
    SelectSeq(call.X.columns,
              LAMBDA c : c # call.label /\ c \notin SeqToSet(categorical_features))

\* The columns of the call's table without its label column.
FeaturesOfCall == SelectSeq(call.X.columns, LAMBDA c : c # call.label)

\* The entries of an output row that belong to the j-th categorical column
\* under the given categories, after c continuous entries.
Block(row, cats, c, j) ==
    LET width == [m \in 1..Len(cats) |-> Len(cats[m])]
    IN  SubSeq(row, c + Sum(width, j - 1) + 1, c + Sum(width, j))

Ones(b) == Cardinality({ p \in 1..Len(b) : b[p] = 1 })

\* C1: every call of process_data that returns with a label column supplied,
\* in training and in inference mode and whatever the number of label
\* classes, returns a matrix with one row per input row and a label vector
\* with one entry per input row.
C1_RowCount ==
    (IsProcessData /\ Returned /\ call.label # label_None)
        => /\ Len(ret.X) = Len(call.X.rows)
           /\ Len(ret.y.values) = Len(call.X.rows)

\* C2: every inference call made without fitted state (encoder None, or
\* label binarizer None while a label column is supplied, or both) ends in
\* a propagated error and returns no result.
C2_NoFittedStateRaises ==
    (IsInference /\ (call.encoder = None
                       \/ (call.lb = None /\ call.label # label_None)))
        => ret.status = "raised"

\* C3: every call of process_data with label=None, in training mode as in
\* inference mode, returns normally with an empty array as y.
C3_NoLabelReturnsEmpty ==
    (IsProcessData /\ call.label = label_None)
        => (Returned /\ ret.y = ndarray(<< >>))

\* C4: an inference call with a fitted encoder and a fitted label binarizer
\* and label=None does not raise, returns an empty label vector that no
\* output of the binarizer's transform reached, and still returns the
\* feature matrix of the table: one row per input row, starting with that
\* row's continuous value.
C4_NoLabelInference ==
    (IsInference /\ call.encoder # None /\ call.lb # None
                 /\ call.label = label_None)
        => /\ Returned
           /\ ret.y = ndarray(<< >>)
           /\ ~ret.lb_transform
           /\ Len(ret.X) = Len(call.X.rows)
           /\ \A i \in 1..Len(call.X.rows) :
                 /\ Len(ret.X[i]) > Len(ContinuousColumns)
                 /\ ret.X[i][1] = call.X.rows[i]["age"]

C4_Witness ==
    /\ IsInference /\ call.encoder # None /\ call.lb # None
    /\ call.label = label_None
    /\ Returned /\ ret.y = ndarray(<< >>)
    /\ Len(call.X.rows) >= 2

\* C5: an inference call with a fitted encoder does not raise; for a row
\* whose value in a categorical column was not in that column's fitted
\* categories every indicator of that column is 0, and for a value that was
\* fitted exactly one indicator of the column is 1, the one at the value's
\* position.
C5_UnknownCategory ==
    (IsInference /\ call.encoder # None)
        => /\ Returned
           /\ \A i \in 1..Len(call.X.rows), j \in 1..Len(categorical_features) :
                 LET cats == call.encoder.categories_
                     v    == call.X.rows[i][categorical_features[j]]
                     b    == Block(ret.X[i], cats, Len(ContinuousColumns), j)
                 IN  /\ Len(b) = Len(cats[j])
                     /\ \A p \in 1..Len(b) : b[p] \in {0, 1}
                     /\ IF v \in SeqToSet(cats[j])
                        THEN /\ Ones(b) = 1
                             /\ \A p \in 1..Len(b) : (b[p] = 1) = (cats[j][p] = v)
                        ELSE Ones(b) = 0

C5_Witness ==
    /\ IsInference /\ call.encoder # None /\ Returned
    /\ \E i \in 1..Len(call.X.rows) :
          /\ call.X.rows[i]["workclass"]
                \notin SeqToSet(call.encoder.categories_[1])
          /\ call.X.rows[i]["sex"] \in SeqToSet(call.encoder.categories_[2])
          /\ Ones(ret.X[i]) = 1

\* What C6 asks of one step.
C6_Step ==
    /\ (encoder' # encoder \/ lb' # lb)
          => (call'.fn = "process_data" /\ call'.training)
    /\ (call'.fn = "process_data" /\ ~call'.training
           /\ ret'.status = "returned")
          => (ret'.encoder = call'.encoder /\ ret'.lb = call'.lb)
    /\ (call'.fn = "slide_performance")
          => \A k \in 1..Len(ret'.calls) :
                LET c == ret'.calls[k]
                IN  /\ c.encoder = call'.encoder
                    /\ c.lb = call'.lb
                    /\ c.ret.status = "returned"
                          => (c.ret.encoder = c.encoder /\ c.ret.lb = c.lb)

\* C6: the fitted encoder and label binarizer change only in a training
\* call: no inference call and no invocation of slide_performance changes
\* the encoder's categories or the binarizer's classes, every inference
\* call that returns, made directly or by slide_performance for a slice,
\* returns the encoder and the binarizer it was passed, and every slice is
\* encoded with the encoder and binarizer slide_performance was given.
C6_FittedStateFrozen == [][C6_Step]_vars

C6_Witness ==
    /\ IsSlide /\ Returned /\ call.encoder # None /\ call.lb # None
    /\ encoder = call.encoder /\ lb = call.lb
    /\ Len(ret.calls) >= 4
    /\ \E k \in 1..Len(ret.calls) :
          Observed(ret.calls[k].X, 1) # SeqToSet(encoder.categories_[1])

\* The position of a column name in the categorical feature list.
CatPos(c) ==
    CHOOSE j \in 1..Len(categorical_features) : categorical_features[j] = c

\* The first row of a table that holds value v in column c.
FirstIndex(X, c, v) ==
    CHOOSE i \in 1..Len(X.rows) :
        /\ X.rows[i][c] = v
        /\ \A m \in 1..(i - 1) : X.rows[m][c] # v

\* C7: when an invocation of slide_performance returns, the report holds as
\* many lines as the categorical columns have distinct values in the table,
\* added up; each line is for a value its column holds; the lines come in
\* categorical-column order and, within a column, in the order the values
\* first appear in the table (so no pair has two lines).
C7_OneLinePerSlice ==
    (IsSlide /\ Returned)
        => /\ Len(report) = DistinctTotal(call.data)
           /\ \A k \in 1..Len(report) :
                 /\ report[k].cat \in SeqToSet(categorical_features)
                 /\ report[k].value
                       \in Observed(call.data, CatPos(report[k].cat))
           /\ \A k \in 1..Len(report), l \in 1..Len(report) :
                 k < l =>
                    \/ CatPos(report[k].cat) < CatPos(report[l].cat)
                    \/ /\ report[k].cat = report[l].cat
                       /\ FirstIndex(call.data, report[k].cat, report[k].value)
                             < FirstIndex(call.data, report[l].cat,
                                          report[l].value)

C7_Witness ==
    /\ IsSlide /\ Returned
    /\ Cardinality(Observed(call.data, 1)) = 3
    /\ Cardinality(Observed(call.data, 2)) = 2
    /\ Len(report) = 5
    /\ report[1].value > report[2].value

\* C8: after an invocation of slide_performance the report holds exactly
\* the lines that invocation wrote, whatever the report held before.
C8_ReportOverwritten == IsSlide => report = ret.written

C8_Witness ==
    /\ IsSlide /\ call.overwrites
    /\ Returned /\ Len(ret.written) >= 2
    /\ report = ret.written

\* C9: a training call that returns gives a matrix whose every row has as
\* many entries as the table has continuous columns plus the distinct values
\* of its categorical columns, and the fitted encoder's categories of each
\* column are exactly the values the column holds, each once.
C9_TrainingWidth ==
    (IsTraining /\ Returned)
        => /\ \A i \in 1..Len(ret.X) :
                 Len(ret.X[i]) = Len(ContinuousColumns) + DistinctTotal(call.X)
           /\ Len(ret.encoder.categories_) = Len(categorical_features)
           /\ \A j \in 1..Len(categorical_features) :
                 /\ SeqToSet(ret.encoder.categories_[j]) = Observed(call.X, j)
                 /\ Len(ret.encoder.categories_[j])
                       = Cardinality(Observed(call.X, j))

C9_Witness ==
    /\ IsTraining /\ Returned
    /\ Len(ContinuousColumns) = 1
    /\ DistinctTotal(call.X) = 5
    /\ Len(ret.X[1]) = 6

====
